---- MODULE Spec2Model ----
(***************************************************************************)
(* Model of the Bambang programs dashboard (src/src/utils.ts, types.ts):   *)
(* the string helpers, the spreadsheet ingestion, the App component's      *)
(* state (loaded, filters, error) with its handlers, and the derived       *)
(* views (rowsWithDerived, filteredRows, options, kpis).                   *)
(*                                                                         *)
(* A JavaScript string is modelled as the sequence of its characters, each *)
(* character a one-character TLA+ string, so that trim, case conversion,   *)
(* substring search, join and comparison are computed, not assumed.        *)
(* A nullable value (T | null) is a sequence of length 0 (null) or 1.      *)
(***************************************************************************)
EXTENDS Integers, Sequences, FiniteSets, TLC

VARIABLES
    loaded,     \* useState<LoadedData | null>: <<>> or <<[raw, bambang, removedNonBambangCount]>>
    filters,    \* useState<FilterState>
    error,      \* useState<string | null>: <<>> or <<message>>
    inputFile,  \* the <input type="file"> element's current file: <<>> or <<file>>
    reads,      \* the FileReader reads in flight, in the order they were started
    event,      \* the handler that ran last, with what it found when it started
    pc,         \* position of a direct call of a pure function: "idle", "call", "return"
    arg,        \* the argument of that call
    res         \* the value it returned

vars == <<loaded, filters, error, inputFile, reads, event, pc, arg, res>>

-----------------------------------------------------------------------------
(* Bounds of the model *)

\* most fragments concatenated into one raw accreditation text
MaxParts == 3

\* most file reads in flight at once
MaxPending == 1

\* longest list handed to uniqSorted
MaxList == 5

\* most expected columns left out of a sheet's header row
MaxMissing == 2

\* most records in a sequence handed to the filter or to the KPI summary
MaxRows == 2

\* most file reads in flight at once where only uploads are looked at
MaxOverlap == 2

\* most records in an exported table
MaxCsvRows == 2

-----------------------------------------------------------------------------
(* JavaScript strings *)

\* a string literal as its sequence of characters
Str(s) == [i \in 1..Len(s) |-> SubSeq(s, i, i)]

NULL == <<>>
Some(x) == <<x>>

LowerLetters == Str("abcdefghijklmnopqrstuvwxyz")
UpperLetters == Str("ABCDEFGHIJKLMNOPQRSTUVWXYZ")

IndexIn(c, letters) == CHOOSE i \in 1..Len(letters) : letters[i] = c

toUpperChar(c) ==
    IF \E i \in 1..Len(LowerLetters) : LowerLetters[i] = c
    THEN UpperLetters[IndexIn(c, LowerLetters)] ELSE c

toLowerChar(c) ==
    IF \E i \in 1..Len(UpperLetters) : UpperLetters[i] = c
    THEN LowerLetters[IndexIn(c, UpperLetters)] ELSE c

toUpperCase(s) == [i \in 1..Len(s) |-> toUpperChar(s[i])]
toLowerCase(s) == [i \in 1..Len(s) |-> toLowerChar(s[i])]

\* the white space String.prototype.trim removes (of the characters modelled)
IsWhiteSpace(c) == c \in {" ", "\t", "\n", "\r"}

RECURSIVE trimStart(_)
trimStart(s) ==
    IF s # <<>> /\ IsWhiteSpace(Head(s)) THEN trimStart(Tail(s)) ELSE s

RECURSIVE trimEnd(_)
trimEnd(s) ==
    IF s # <<>> /\ IsWhiteSpace(s[Len(s)])
    THEN trimEnd(SubSeq(s, 1, Len(s) - 1)) ELSE s

trim(s) == trimEnd(trimStart(s))

\* String.prototype.includes: a left-to-right scan for the first occurrence
RECURSIVE includesFrom(_, _, _)
includesFrom(s, sub, i) ==
    IF i + Len(sub) - 1 > Len(s) THEN FALSE
    ELSE IF SubSeq(s, i, i + Len(sub) - 1) = sub THEN TRUE
    ELSE includesFrom(s, sub, i + 1)

includes(s, sub) == includesFrom(s, sub, 1)

\* Array.prototype.join
RECURSIVE join(_, _)
join(list, sep) ==
    IF list = <<>> THEN <<>>
    ELSE IF Len(list) = 1 THEN list[1]
    ELSE list[1] \o sep \o join(Tail(list), sep)

\* Array.prototype.includes on an array of strings
arrayIncludes(list, v) == \E i \in 1..Len(list) : list[i] = v

\* the truthiness of a string (Boolean(s)): non-empty
Boolean(s) == s # <<>>

-----------------------------------------------------------------------------
(* normalizeAccreditation *)

normalizeAccreditation_swapped(raw) ==
    LET v == trim(raw)
        upper == toUpperCase(v)
    IN  IF v = <<>> THEN Str("Unknown")
        ELSE IF includes(upper, Str("LEVEL I")) THEN Str("Level I")
        ELSE IF includes(upper, Str("LEVEL II")) THEN Str("Level II")
        ELSE IF includes(upper, Str("LEVEL III")) THEN Str("Level III")
        ELSE IF includes(upper, Str("LEVEL IV")) THEN Str("Level IV")
        ELSE IF includes(upper, Str("CANDIDATE")) THEN Str("Candidate")
        ELSE v

normalizeAccreditation(raw) ==
    LET v == trim(raw)
        upper == toUpperCase(v)
    IN  IF v = <<>> THEN Str("Unknown")
        ELSE IF includes(upper, Str("LEVEL IV")) THEN Str("Level IV")
        ELSE IF includes(upper, Str("LEVEL III")) THEN Str("Level III")
        ELSE IF includes(upper, Str("LEVEL II")) THEN Str("Level II")
        ELSE IF includes(upper, Str("LEVEL I")) THEN Str("Level I")
        ELSE IF includes(upper, Str("CANDIDATE")) THEN Str("Candidate")
        ELSE v

-----------------------------------------------------------------------------
(* Cells, rows and files *)

EXPECTED_HEADERS ==
    << "Campus", "College", "Program", "Major", "Level", "COPC Status",
       "COPC No.", "Contents Notation", "Accreditation", "CMO / PSG",
       "BOR Resolution", "Dean" >>

ExpectedSet == {EXPECTED_HEADERS[i] : i \in 1..Len(EXPECTED_HEADERS)}

\* a cell value as sheet_to_json hands it over (value: unknown)
StrCell(s)  == [kind |-> "string",    s |-> s,    n |-> 0, b |-> FALSE]
NumCell(n)  == [kind |-> "number",    s |-> <<>>, n |-> n, b |-> FALSE]
BoolCell(b) == [kind |-> "boolean",   s |-> <<>>, n |-> 0, b |-> b]
OtherCell(s) == [kind |-> "object",   s |-> s,    n |-> 0, b |-> FALSE]
Undefined   == [kind |-> "undefined", s |-> <<>>, n |-> 0, b |-> FALSE]

Digits == Str("0123456789")

\* String(n) of a non-negative integer
RECURSIVE NumberToString(_)
NumberToString(n) ==
    IF n < 10 THEN <<Digits[n + 1]>>
    ELSE NumberToString(n \div 10) \o <<Digits[(n % 10) + 1]>>

normalizeCell(value) ==
    IF value.kind = "undefined" THEN <<>>
    ELSE IF value.kind = "string" THEN trim(value.s)
    ELSE IF value.kind = "number" THEN NumberToString(value.n)
    ELSE IF value.kind = "boolean" THEN (IF value.b THEN Str("TRUE") ELSE Str("FALSE"))
    ELSE trim(value.s)

\* validateHeaders: <<>> (null) or <<message>>
validateHeaders_first(headers) ==
    LET trimmed == [i \in 1..Len(headers) |-> trim(headers[i])]
        missing == SelectSeq(EXPECTED_HEADERS, LAMBDA h : ~arrayIncludes(trimmed, Str(h)))
    IN  IF Len(missing) # 0
        THEN Some(Str("Missing expected columns: ") \o Str(missing[1]))
        ELSE NULL

validateHeaders(headers) ==
    LET trimmed == [i \in 1..Len(headers) |-> trim(headers[i])]
        missing == SelectSeq(EXPECTED_HEADERS, LAMBDA h : ~arrayIncludes(trimmed, Str(h)))
    IN  IF Len(missing) # 0
        THEN Some(Str("Missing expected columns: ")
                  \o join([i \in 1..Len(missing) |-> Str(missing[i])], Str(", ")))
        ELSE NULL

\* XLSX.utils.sheet_to_json(ws, {defval: '', raw: false}): one object per data
\* row, keyed by the header cells' text as it stands in the sheet
sheet_to_json(ws) ==
    [i \in 1..Len(ws.rows) |->
        [k \in {ws.headers[j] : j \in 1..Len(ws.headers)} |->
            ws.rows[i][CHOOSE j \in 1..Len(ws.headers) : ws.headers[j] = k]]]

\* r[key] of a row object: undefined when the object has no such key
Get(r, key) == IF key \in DOMAIN r THEN r[key] ELSE Undefined

\* Object.keys(rowsArr[0]): the sheet's header texts
ObjectKeys(ws) == ws.headers

Resolved(rows) == [ok |-> TRUE, rows |-> rows, message |-> <<>>]
Rejected(msg)  == [ok |-> FALSE, rows |-> <<>>, message |-> msg]

\* reader.onload of parseXlsxFirstSheet: the promise's outcome for a workbook
\* XLSX.read could parse (an error thrown by XLSX.read itself is not modelled)
onload(file) ==
    IF Len(file.sheets) = 0 THEN Rejected(Str("No sheets found in the workbook."))
    ELSE LET ws == file.sheets[1]
             rowsArr == sheet_to_json(ws)
         IN  IF Len(rowsArr) = 0 THEN Resolved(<<>>)
             ELSE LET headerErr == validateHeaders(ObjectKeys(ws))
                  IN  IF headerErr # NULL THEN Rejected(headerErr[1])
                      ELSE Resolved([i \in 1..Len(rowsArr) |->
                               [h \in ExpectedSet |-> normalizeCell(Get(rowsArr[i], Str(h)))]])

\* parseXlsxFirstSheet: reader.onerror rejects, reader.onload parses
parseXlsxFirstSheet(file) ==
    IF ~file.readable THEN Rejected(Str("Failed to read the file."))
    ELSE onload(file)

-----------------------------------------------------------------------------
(* uniqSorted *)

\* the order of a character under localeCompare with sensitivity 'base':
\* white space, punctuation, symbols, digits, letters; case makes no difference
CollationOrder == Str("\t\n -,.\"()/|0123456789abcdefghijklmnopqrstuvwxyz")

CollationRank(c) ==
    LET l == toLowerChar(c)
    IN  IF \E i \in 1..Len(CollationOrder) : CollationOrder[i] = l
        THEN IndexIn(l, CollationOrder) ELSE 0

\* a.localeCompare(b, undefined, {sensitivity: 'base'}): -1, 0 or 1
RECURSIVE localeCompare(_, _)
localeCompare(a, b) ==
    IF a = <<>> /\ b = <<>> THEN 0
    ELSE IF a = <<>> THEN -1
    ELSE IF b = <<>> THEN 1
    ELSE IF CollationRank(Head(a)) < CollationRank(Head(b)) THEN -1
    ELSE IF CollationRank(Head(a)) > CollationRank(Head(b)) THEN 1
    ELSE localeCompare(Tail(a), Tail(b))

\* new Set(values): the distinct values, in the order of their first occurrence
RECURSIVE SetOf(_)
SetOf(values) ==
    IF values = <<>> THEN <<>>
    ELSE LET init == SetOf(SubSeq(values, 1, Len(values) - 1))
             last == values[Len(values)]
         IN  IF arrayIncludes(init, last) THEN init ELSE Append(init, last)

\* Array.prototype.sort is stable: an element goes after every element that
\* does not compare greater than it
RECURSIVE InsertSorted(_, _)
InsertSorted(sorted, x) ==
    IF sorted = <<>> THEN <<x>>
    ELSE IF localeCompare(x, Head(sorted)) < 0 THEN <<x>> \o sorted
    ELSE <<Head(sorted)>> \o InsertSorted(Tail(sorted), x)

RECURSIVE sort(_)
sort(list) ==
    IF list = <<>> THEN <<>>
    ELSE InsertSorted(sort(SubSeq(list, 1, Len(list) - 1)), list[Len(list)])

uniqSorted_nodedup(values) ==
    sort(SelectSeq([i \in 1..Len(values) |-> trim(values[i])], Boolean))

uniqSorted(values) ==
    sort(SetOf(SelectSeq([i \in 1..Len(values) |-> trim(values[i])], Boolean)))

-----------------------------------------------------------------------------
(* The App component: derived values *)

DEFAULT_FILTERS ==
    [colleges |-> <<>>, levels |-> <<>>, copcStatuses |-> <<>>,
     accreditations |-> <<>>, deans |-> <<>>, search |-> <<>>,
     hideBlankMajor |-> FALSE]

includesSearch_cased(row, q) ==
    LET query == toLowerCase(trim(q))
        haystack ==
            join(SelectSeq(
                << row["Program"], row["Major"], row["COPC No."], row["CMO / PSG"],
                   row["BOR Resolution"], row["Contents Notation"], row["College"],
                   row["Level"], row["COPC Status"], row["Accreditation"],
                   row["Dean"] >>, Boolean), Str(" | "))
    IN  IF query = <<>> THEN TRUE ELSE includes(haystack, query)

includesSearch(row, q) ==
    LET query == toLowerCase(trim(q))
        haystack ==
            toLowerCase(join(SelectSeq(
                << row["Program"], row["Major"], row["COPC No."], row["CMO / PSG"],
                   row["BOR Resolution"], row["Contents Notation"], row["College"],
                   row["Level"], row["COPC Status"], row["Accreditation"],
                   row["Dean"] >>, Boolean), Str(" | ")))
    IN  IF query = <<>> THEN TRUE ELSE includes(haystack, query)

matchesMulti_strict(selected, value) == arrayIncludes(selected, value)

matchesMulti(selected, value) ==
    IF Len(selected) = 0 THEN TRUE ELSE arrayIncludes(selected, value)

\* const rows = loaded?.bambang ?? []
rows == IF loaded = NULL THEN <<>> ELSE loaded[1].bambang

Derive(r) ==
    [h \in ExpectedSet \cup {"AccreditationNormalized"} |->
        IF h = "AccreditationNormalized" THEN normalizeAccreditation(r["Accreditation"])
        ELSE r[h]]

rowsWithDerivedOf(rs) == [i \in 1..Len(rs) |-> Derive(rs[i])]

filteredRowsOf(rs, f) ==
    SelectSeq(rs, LAMBDA r :
        IF ~matchesMulti(f.colleges, r["College"]) THEN FALSE
        ELSE IF ~matchesMulti(f.levels, r["Level"]) THEN FALSE
        ELSE IF ~matchesMulti(f.copcStatuses, r["COPC Status"]) THEN FALSE
        ELSE IF ~matchesMulti(f.accreditations, r["AccreditationNormalized"]) THEN FALSE
        ELSE IF ~matchesMulti(f.deans, r["Dean"]) THEN FALSE
        ELSE IF f.hideBlankMajor /\ ~Boolean(trim(r["Major"])) THEN FALSE
        ELSE IF ~includesSearch(r, f.search) THEN FALSE
        ELSE TRUE)

Column(rs, h) == [i \in 1..Len(rs) |-> rs[i][h]]

optionsOf(rs) ==
    [colleges       |-> uniqSorted(Column(rs, "College")),
     levels         |-> uniqSorted(Column(rs, "Level")),
     copcStatuses   |-> uniqSorted(Column(rs, "COPC Status")),
     accreditations |-> uniqSorted(Column(rs, "AccreditationNormalized")),
     deans          |-> uniqSorted(Column(rs, "Dean"))]

kpisOf_exact(frows) ==
    LET status(r) == toLowerCase(r["COPC Status"])
    IN  [total    |-> Len(frows),
         issued   |-> Len(SelectSeq(frows, LAMBDA r : status(r) = Str("issued"))),
         underApp |-> Len(SelectSeq(frows, LAMBDA r : status(r) = Str("under application"))),
         phaseOut |-> Len(SelectSeq(frows, LAMBDA r : status(r) = Str("phase-out"))),
         colleges |-> Len(SetOf(SelectSeq(Column(frows, "College"), Boolean)))]

kpisOf(frows) ==
    LET status(r) == toLowerCase(r["COPC Status"])
    IN  [total    |-> Len(frows),
         issued   |-> Len(SelectSeq(frows, LAMBDA r : status(r) = Str("issued"))),
         underApp |-> Len(SelectSeq(frows, LAMBDA r : status(r) = Str("under application"))),
         phaseOut |-> Len(SelectSeq(frows, LAMBDA r : includes(status(r), Str("phase-out")))),
         colleges |-> Len(SetOf(SelectSeq(Column(frows, "College"), Boolean)))]

\* String.prototype.replaceAll('"', '""')
RECURSIVE replaceAllQuotes(_)
replaceAllQuotes(v) ==
    IF v = <<>> THEN <<>>
    ELSE (IF Head(v) = "\"" THEN <<"\"", "\"">> ELSE <<Head(v)>>)
            \o replaceAllQuotes(Tail(v))

\* the column names of the exported table
csvHeaders == EXPECTED_HEADERS \o << "AccreditationNormalized" >>

\* one field of the exported table
escaped(v) ==
    IF includes(v, Str(",")) \/ includes(v, <<"\"">>) \/ includes(v, Str("\n"))
    THEN <<"\"">> \o replaceAllQuotes(v) \o <<"\"">>
    ELSE v

\* the text that downloadFilteredCsv puts in the blob
downloadFilteredCsv(frows) ==
    LET headerLine == join([k \in 1..Len(csvHeaders) |-> Str(csvHeaders[k])], Str(","))
        values(r) == [k \in 1..Len(csvHeaders) |-> escaped(r[csvHeaders[k]])]
        lines == <<headerLine>> \o [i \in 1..Len(frows) |-> join(values(frows[i]), Str(","))]
    IN  join(lines, Str("\n"))

rowsWithDerived == rowsWithDerivedOf(rows)
filteredRows == filteredRowsOf(rowsWithDerived, filters)
options_fromFiltered == optionsOf(filteredRows)

options == optionsOf(rowsWithDerived)
kpis == kpisOf(filteredRows)

-----------------------------------------------------------------------------
(* The files the user picks from *)

Headers12 == [i \in 1..Len(EXPECTED_HEADERS) |-> Str(EXPECTED_HEADERS[i])]

\* a data row in the order of EXPECTED_HEADERS
MkRow(campus, college, major, status, accreditation, dean) ==
    << StrCell(campus), StrCell(college), StrCell(Str(" BSIT ")), StrCell(major),
       StrCell(Str("UG")), StrCell(status), NumCell(12), StrCell(<<>>),
       StrCell(accreditation), StrCell(<<>>), BoolCell(TRUE), StrCell(dean) >>

Workbook(sheets) == [readable |-> TRUE, sheets |-> sheets]

FileUnreadable == [readable |-> FALSE, sheets |-> <<>>]

FileNoSheets == Workbook(<<>>)

\* the Dean column is missing
FileNoDean ==
    Workbook(<< [headers |-> SubSeq(Headers12, 1, 11),
                 rows |-> << SubSeq(MkRow(Str("Bambang"), Str("CAS"), Str("Math"),
                                          Str("Issued"), Str("Level I"), <<>>), 1, 11) >>] >>)

FileA ==
    Workbook(<< [headers |-> Headers12,
                 rows |-> << MkRow(Str("BAMBANG"), Str("CAS"), <<>>, Str("Issued"),
                                   Str("Level II"), Str("Cruz")),
                             MkRow(Str("Solano"), Str("CTE"), Str("Math"), Str("Issued"),
                                   Str("Level II"), <<>>),
                             MkRow(Str("bambang "), Str("CTE"), Str("Math"), Str("Issued"),
                                   Str("aaccup level ii"), <<>>) >>] >>)

\* an extra column, and a second sheet that is never read
FileB ==
    Workbook(<< [headers |-> Headers12 \o <<Str("Notes")>>,
                 rows |-> << MkRow(Str("Bambang"), Str("CBE"), Str("Finance"),
                                   Str("Voluntary Phase-Out"), <<>>, <<>>)
                             \o <<StrCell(Str("n/a"))>> >>],
                [headers |-> <<Str("Other")>>, rows |-> <<>>] >>)

Files == {FileUnreadable, FileNoSheets, FileNoDean, FileA, FileB}

\* what the user types into the search box
SearchInputs == {<<>>, Str(" cte ")}

-----------------------------------------------------------------------------
(* The App component: state and handlers *)

LoadedData_exact(raw) ==
    LET bambang == SelectSeq(raw, LAMBDA r : trim(r["Campus"]) = Str("Bambang"))
    IN  [raw |-> raw, bambang |-> bambang,
         removedNonBambangCount |-> Len(raw) - Len(bambang)]

LoadedData(raw) ==
    LET bambang == SelectSeq(raw, LAMBDA r : toLowerCase(trim(r["Campus"])) = Str("bambang"))
    IN  [raw |-> raw, bambang |-> bambang,
         removedNonBambangCount |-> Len(raw) - Len(bambang)]

Event(op, file) ==
    [op |-> op, file |-> file, hadData |-> loaded # NULL,
     hadFilters |-> filters # DEFAULT_FILTERS]

Idle == pc = "idle" /\ UNCHANGED <<pc, arg, res>>

\* onFileSelected up to its await: the file dialog closed without a file
onFileSelected_null ==
    /\ Idle
    /\ error' = NULL
    /\ inputFile' = NULL
    /\ event' = Event("cancel", NULL)
    /\ UNCHANGED <<loaded, filters, reads>>

\* onFileSelected up to its await: the read of the file starts
onFileSelected(file) ==
    /\ Idle
    /\ error' = NULL
    /\ inputFile' = Some(file)
    /\ reads' = Append(reads, file)
    /\ event' = Event("select", Some(file))
    /\ UNCHANGED <<loaded, filters>>

Remove(list, i) == SubSeq(list, 1, i - 1) \o SubSeq(list, i + 1, Len(list))

\* onFileSelected after its await, the promise resolved: setLoaded and
\* setFilters run in one task, with no render in between that the user sees
onFileSelected_try_noreset(i) ==
    LET out == parseXlsxFirstSheet(reads[i])
    IN  /\ Idle
        /\ out.ok
        /\ reads' = Remove(reads, i)
        /\ loaded' = Some(LoadedData(out.rows))
        /\ event' = Event("loaded", Some(reads[i]))
        /\ UNCHANGED <<filters, error, inputFile>>

onFileSelected_try(i) ==
    LET out == parseXlsxFirstSheet(reads[i])
    IN  /\ Idle
        /\ out.ok
        /\ reads' = Remove(reads, i)
        /\ loaded' = Some(LoadedData(out.rows))
        /\ filters' = DEFAULT_FILTERS
        /\ event' = Event("loaded", Some(reads[i]))
        /\ UNCHANGED <<error, inputFile>>

\* onFileSelected after its await, the promise rejected
onFileSelected_catch_keep(i) ==
    LET out == parseXlsxFirstSheet(reads[i])
    IN  /\ Idle
        /\ ~out.ok
        /\ reads' = Remove(reads, i)
        /\ error' = Some(out.message)
        /\ event' = Event("failed", Some(reads[i]))
        /\ UNCHANGED <<loaded, filters, inputFile>>

onFileSelected_catch(i) ==
    LET out == parseXlsxFirstSheet(reads[i])
    IN  /\ Idle
        /\ ~out.ok
        /\ reads' = Remove(reads, i)
        /\ loaded' = NULL
        /\ error' = Some(out.message)
        /\ event' = Event("failed", Some(reads[i]))
        /\ UNCHANGED <<filters, inputFile>>

\* the sub-lists of an option list a multi-select can hand to onChange
Pick(opts, S) == SelectSeq(opts, LAMBDA o : o \in S)
Selections(opts) == {Pick(opts, S) : S \in SUBSET {opts[i] : i \in 1..Len(opts)}}

\* the filter controls are rendered only while a dataset is loaded
SetFilters(next) ==
    /\ Idle
    /\ loaded # NULL
    /\ filters' = next
    /\ event' = Event("filter", NULL)
    /\ UNCHANGED <<loaded, error, inputFile, reads>>

setSearch(q) == SetFilters([filters EXCEPT !.search = q])
setHideBlankMajor(b) == SetFilters([filters EXCEPT !.hideBlankMajor = b])
setColleges(next) == SetFilters([filters EXCEPT !.colleges = next])
setLevels(next) == SetFilters([filters EXCEPT !.levels = next])
setCopcStatuses(next) == SetFilters([filters EXCEPT !.copcStatuses = next])
setAccreditations(next) == SetFilters([filters EXCEPT !.accreditations = next])
setDeans(next) == SetFilters([filters EXCEPT !.deans = next])

\* the Reset button
Reset ==
    /\ Idle
    /\ filters' = DEFAULT_FILTERS
    /\ event' = Event("reset", NULL)
    /\ UNCHANGED <<loaded, error, inputFile, reads>>

AppInit ==
    /\ loaded = NULL
    /\ filters = DEFAULT_FILTERS
    /\ error = NULL
    /\ inputFile = NULL
    /\ reads = <<>>
    /\ event = [op |-> "init", file |-> NULL, hadData |-> FALSE, hadFilters |-> FALSE]

Init == AppInit /\ pc = "idle" /\ arg = <<>> /\ res = <<>>

Next ==
    \/ onFileSelected_null
    \/ \E file \in Files : Len(reads) < MaxPending /\ onFileSelected(file)
    \/ \E i \in DOMAIN reads : onFileSelected_try(i)
    \/ \E i \in DOMAIN reads : onFileSelected_catch(i)
    \/ \E q \in SearchInputs : setSearch(q)
    \/ \E b \in BOOLEAN : setHideBlankMajor(b)
    \/ \E next \in Selections(options.colleges) : setColleges(next)
    \/ \E next \in Selections(options.levels) : setLevels(next)
    \/ \E next \in Selections(options.copcStatuses) : setCopcStatuses(next)
    \/ \E next \in Selections(options.accreditations) : setAccreditations(next)
    \/ \E next \in Selections(options.deans) : setDeans(next)
    \/ Reset

Spec == Init /\ [][Next]_vars

\* the uploads alone, with reads that overlap: the user picks a file while
\* earlier reads are still in flight, and the reads settle in any order
NextOverlap ==
    \/ onFileSelected_null
    \/ \E file \in Files : Len(reads) < MaxOverlap /\ onFileSelected(file)
    \/ \E i \in DOMAIN reads : onFileSelected_try(i)
    \/ \E i \in DOMAIN reads : onFileSelected_catch(i)

SpecOverlap == Init /\ [][NextOverlap]_vars

-----------------------------------------------------------------------------
(* Direct calls of the pure functions: the argument is drawn in the initial *)
(* state, the call computes the result.                                     *)

AppIdle ==
    /\ loaded = NULL
    /\ filters = DEFAULT_FILTERS
    /\ error = NULL
    /\ inputFile = NULL
    /\ reads = <<>>
    /\ event = [op |-> "call", file |-> NULL, hadData |-> FALSE, hadFilters |-> FALSE]

Return(value) ==
    /\ pc = "call"
    /\ res' = value
    /\ pc' = "return"
    /\ UNCHANGED <<loaded, filters, error, inputFile, reads, event, arg>>

\* every list of at most n elements of S
ListsUpTo(S, n) == UNION {[1..k -> S] : k \in 0..n}

RECURSIVE Concat(_)
Concat(parts) == IF parts = <<>> THEN <<>> ELSE Head(parts) \o Concat(Tail(parts))

\* raw accreditation texts: up to MaxParts of these fragments, concatenated
AccreditationFragments ==
    { Str(" "), Str("Level "), Str("level "), Str("I"), Str("II"), Str("III"),
      Str("IV"), Str(" Candidate"), Str("CANDIDATE"), Str("AACCUP") }

AccreditationTexts == {Concat(p) : p \in ListsUpTo(AccreditationFragments, MaxParts)}

InitAccreditation == AppIdle /\ pc = "call" /\ res = <<>> /\ arg \in AccreditationTexts

CallNormalizeAccreditation == Return(normalizeAccreditation(arg))

SpecAccreditation == InitAccreditation /\ [][CallNormalizeAccreditation]_vars

\* values handed to uniqSorted
UniqValues == {Str("b"), Str("a"), Str(" a "), <<>>, Str("B")}

InitUniq == AppIdle /\ pc = "call" /\ res = <<>> /\ arg \in ListsUpTo(UniqValues, MaxList)

CallUniqSorted == Return(uniqSorted(arg))

SpecUniq == InitUniq /\ [][CallUniqSorted]_vars

\* sheets with one data row: some expected columns left out, the header row
\* in the expected order or reversed, the header texts as they are or padded
\* with white space, with or without a column that is not expected; each cell
\* holds a text of its own column
Reverse(list) == [i \in 1..Len(list) |-> list[Len(list) + 1 - i]]

SheetWith(absent, reversed, padded, extra) ==
    LET present == SelectSeq(EXPECTED_HEADERS, LAMBDA h : h \notin absent)
        texts == [i \in 1..Len(present) |->
                    IF padded THEN Str(" ") \o Str(present[i]) \o Str("  ")
                    ELSE Str(present[i])]
        ordered == IF reversed THEN Reverse(texts) ELSE texts
        headers == IF extra THEN <<Str("Notes")>> \o ordered ELSE ordered
    IN  [headers |-> headers,
         rows |-> << [i \in 1..Len(headers) |-> StrCell(Str(" v ") \o headers[i]) ] >>]

ParseInputs ==
    { Workbook(<<SheetWith(absent, reversed, padded, extra)>>) :
        absent \in {A \in SUBSET ExpectedSet : Cardinality(A) <= MaxMissing},
        reversed \in BOOLEAN, padded \in BOOLEAN, extra \in BOOLEAN }

InitParse == AppIdle /\ pc = "call" /\ res = <<>> /\ arg \in ParseInputs

CallParseXlsxFirstSheet == Return(parseXlsxFirstSheet(arg))

SpecParse == InitParse /\ [][CallParseXlsxFirstSheet]_vars

\* records handed to the filter and to the KPI summary
MkRecord(college, major, level, status, accreditation, dean) ==
    Derive([h \in ExpectedSet |->
        CASE h = "Campus" -> Str("Bambang")
          [] h = "College" -> college
          [] h = "Program" -> Str("BSIT")
          [] h = "Major" -> major
          [] h = "Level" -> level
          [] h = "COPC Status" -> status
          [] h = "Accreditation" -> accreditation
          [] h = "Dean" -> dean
          [] OTHER -> <<>>])

FilterRecords ==
    { MkRecord(Str("CAS"), <<>>, Str("UG"), Str("Issued"), Str("Level II"), Str("Cruz")),
      MkRecord(Str("CTE"), Str("Math"), Str("Grad"), Str("Issued"), <<>>, <<>>),
      MkRecord(Str("CAS"), Str("math"), Str("UG"), Str("Phase-Out"), Str("level ii"), Str("Cruz")),
      MkRecord(Str("cas"), Str("Arts"), Str("Grad"), Str("Issued"), Str("Level II"), Str("Reyes")) }

FilterStates ==
    [colleges : {<<>>, <<Str("CAS")>>, <<Str("CAS"), Str("CTE")>>},
     levels : {<<>>, <<Str("UG")>>},
     copcStatuses : {<<>>, <<Str("Issued")>>},
     accreditations : {<<>>, <<Str("Level II")>>, <<Str("Unknown")>>},
     deans : {<<>>, <<Str("Cruz")>>},
     search : {<<>>, Str("  "), Str(" MATH"), Str("cas | ug")},
     hideBlankMajor : BOOLEAN]

InitFilter ==
    /\ AppIdle /\ pc = "call" /\ res = <<>>
    /\ arg \in [rows : ListsUpTo(FilterRecords, MaxRows), f : FilterStates]

CallFilteredRows == Return(filteredRowsOf(arg.rows, arg.f))

SpecFilter == InitFilter /\ [][CallFilteredRows]_vars

KpiStatuses ==
    { Str("Issued"), Str("ISSUED"), Str("Under Application"), Str("Voluntary Phase-Out"),
      Str("phase-out (pending)"), Str("Phased"), <<>> }

KpiRecords ==
    { MkRecord(college, <<>>, Str("UG"), status, <<>>, <<>>) :
        college \in {Str("CAS"), Str("CTE"), <<>>}, status \in KpiStatuses }

InitKpis == AppIdle /\ pc = "call" /\ res = <<>> /\ arg \in ListsUpTo(KpiRecords, MaxRows)

CallKpis == Return(kpisOf(arg))

SpecKpis == InitKpis /\ [][CallKpis]_vars

\* records handed to the export: texts with commas, quotes and line breaks
CsvPrograms ==
    { Str("BSIT"),
      Str("Bachelor, Arts \"Honors\""),
      Str("\"Q\""),
      Str("Line1\nLine2"),
      Str("Line1\r\nLine2"),
      Str("Line1\rLine2") }

CsvAccreditations == { Str("Level II"), Str("Board, \"A\"") }

CsvRecords ==
    { Derive([MkRecord(Str("CAS"), <<>>, Str("UG"), Str("Issued"), accreditation, Str("Cruz"))
                EXCEPT !["Program"] = program]) :
        program \in CsvPrograms, accreditation \in CsvAccreditations }

\* the Download CSV button is enabled only when there are filtered rows
InitCsv ==
    /\ AppIdle /\ pc = "call" /\ res = <<>>
    /\ arg \in ListsUpTo(CsvRecords, MaxCsvRows) \ {<<>>}

CallDownloadFilteredCsv == Return(downloadFilteredCsv(arg))

SpecCsv == InitCsv /\ [][CallDownloadFilteredCsv]_vars

-----------------------------------------------------------------------------
(* What the claims say, stated without the operators of the model *)

\* s without its leading and trailing white space
Trimmed(s) ==
    LET solid == {i \in 1..Len(s) : ~IsWhiteSpace(s[i])}
    IN  IF solid = {} THEN <<>>
        ELSE SubSeq(s, CHOOSE i \in solid : \A j \in solid : i <= j,
                       CHOOSE i \in solid : \A j \in solid : i >= j)

SameLetter(c, d) == toUpperChar(c) = toUpperChar(d)

\* sub occurs in s, letter case ignored
OccursIn(sub, s) ==
    \E i \in 0..(Len(s) - Len(sub)) : \A j \in 1..Len(sub) : SameLetter(s[i + j], sub[j])

EqualIgnoringCase(a, b) ==
    Len(a) = Len(b) /\ \A i \in 1..Len(a) : SameLetter(a[i], b[i])

Elements(list) == {list[i] : i \in 1..Len(list)}

Min(S) == CHOOSE x \in S : \A y \in S : x <= y

FirstIndex(list, v) == Min({i \in 1..Len(list) : list[i] = v})

\* sub is list with some elements left out, the others in their order
IsSubsequenceBy(sub, list, kept) ==
    /\ Len(sub) = Cardinality(kept)
    /\ \A k \in 1..Len(sub) :
          \E i \in kept : sub[k] = list[i] /\ Cardinality({j \in kept : j <= i}) = k

AccreditationKeywords ==
    << Str("Level IV"), Str("Level III"), Str("Level II"), Str("Level I"), Str("Candidate") >>

\* C6: normalizeAccreditation returns 'Unknown' for a text that is empty after
\* trimming, otherwise the canonical label of the first keyword, in the order
\* LEVEL IV, LEVEL III, LEVEL II, LEVEL I, CANDIDATE, that occurs in the text
\* (case ignored), otherwise the trimmed text; a text containing Level II, III
\* or IV is never mapped to Level I, and 'Level I Candidate' maps to 'Level I'.
C6_NormalizeAccreditation ==
    pc = "return" =>
        LET t == Trimmed(arg)
            hits == {k \in 1..Len(AccreditationKeywords) : OccursIn(AccreditationKeywords[k], t)}
        IN  /\ t = <<>> => res = Str("Unknown")
            /\ t # <<>> /\ hits # {} => res = AccreditationKeywords[Min(hits)]
            /\ t # <<>> /\ hits = {} => res = t
            /\ (\E k \in 1..3 : OccursIn(AccreditationKeywords[k], arg)) => res # Str("Level I")
            /\ arg = Str("Level I Candidate") => res = Str("Level I")

C6_Witness ==
    pc = "return" /\ arg = Str("Level I Candidate") /\ res = Str("Level I")

UniqExample == << Str("b"), Str("a"), Str(" a "), <<>>, Str("B") >>

UniqGeneral ==
    LET trimmed == [i \in 1..Len(arg) |-> Trimmed(arg[i])]
    IN  /\ Elements(res) = Elements(trimmed) \ {<<>>}
        /\ \A i, j \in 1..Len(res) : i < j =>
              /\ res[i] # res[j]
              /\ localeCompare(res[i], res[j]) <= 0
              /\ localeCompare(res[i], res[j]) = 0 =>
                    FirstIndex(trimmed, res[i]) < FirstIndex(trimmed, res[j])

\* C7 as amended: uniqSorted returns the values trimmed, with empties dropped,
\* exact duplicates dropped, sorted case-insensitively, values that differ only
\* in case staying in the order of their first occurrence; in particular
\* uniqSorted(["b", "a", " a ", "", "B"]) = ["a", "b", "B"].
C7_UniqSorted ==
    pc = "return" =>
        /\ UniqGeneral
        /\ arg = UniqExample => res = << Str("a"), Str("b"), Str("B") >>

C7_Witness ==
    pc = "return" /\ arg = UniqExample /\ res = << Str("a"), Str("b"), Str("B") >>

\* C7 as stated: uniqSorted returns the values trimmed, with empties dropped,
\* deduplicated, sorted case-insensitively; in particular
\* uniqSorted(["b", "a", " a ", "", "B"]) = ["a", "b"].
C7_AsStated ==
    pc = "return" =>
        /\ Elements(res) = Elements([i \in 1..Len(arg) |-> Trimmed(arg[i])]) \ {<<>>}
        /\ \A i, j \in 1..Len(res) : i < j => localeCompare(res[i], res[j]) <= 0
        /\ arg = UniqExample => res = << Str("a"), Str("b") >>

Contains(sub, s) ==
    \E i \in 0..(Len(s) - Len(sub)) : SubSeq(s, i + 1, i + Len(sub)) = sub

StartsWith(s, prefix) == Len(s) >= Len(prefix) /\ SubSeq(s, 1, Len(prefix)) = prefix

\* the non-empty ones of the eleven searched fields, each followed by " | "
RECURSIVE PipeEach(_)
PipeEach(fields) ==
    IF fields = <<>> THEN <<>>
    ELSE (IF Head(fields) = <<>> THEN <<>> ELSE Head(fields) \o Str(" | "))
         \o PipeEach(Tail(fields))

\* the pipe-joined concatenation of the non-empty searched fields
Haystack(r) ==
    LET piped == PipeEach(<< r["Program"], r["Major"], r["COPC No."], r["CMO / PSG"],
                             r["BOR Resolution"], r["Contents Notation"], r["College"],
                             r["Level"], r["COPC Status"], r["Accreditation"], r["Dean"] >>)
    IN  IF piped = <<>> THEN <<>> ELSE SubSeq(piped, 1, Len(piped) - 3)

InSelection(selected, value) == selected = <<>> \/ value \in Elements(selected)

\* the seven conditions of the filter
Passes(r, f) ==
    /\ InSelection(f.colleges, r["College"])
    /\ InSelection(f.levels, r["Level"])
    /\ InSelection(f.copcStatuses, r["COPC Status"])
    /\ InSelection(f.accreditations, r["AccreditationNormalized"])
    /\ InSelection(f.deans, r["Dean"])
    /\ f.hideBlankMajor => Trimmed(r["Major"]) # <<>>
    /\ Trimmed(f.search) = <<>> \/ OccursIn(Trimmed(f.search), Haystack(r))

\* C3: the filtered result is exactly the subsequence of the input, in input
\* order, of the records that satisfy all seven conditions.
C3_FilterExact ==
    pc = "return" =>
        IsSubsequenceBy(res, arg.rows,
                        {i \in 1..Len(arg.rows) : Passes(arg.rows[i], arg.f)})

C3_Witness ==
    /\ pc = "return"
    /\ Len(arg.rows) = 2 /\ Len(res) = 1 /\ res[1] = arg.rows[2]
    /\ arg.f.search = Str(" MATH") /\ arg.f.colleges # <<>> /\ arg.f.hideBlankMajor

NoSelection(f) ==
    /\ f.colleges = <<>> /\ f.levels = <<>> /\ f.copcStatuses = <<>>
    /\ f.accreditations = <<>> /\ f.deans = <<>>

\* C4 as amended: with all five multi-select sets empty, the search blank and
\* hideBlankMajor off, filtering returns exactly the input sequence.
C4_FilterIdentity ==
    pc = "return" /\ NoSelection(arg.f) /\ Trimmed(arg.f.search) = <<>>
                  /\ ~arg.f.hideBlankMajor
        => res = arg.rows

C4_Witness ==
    /\ pc = "return" /\ NoSelection(arg.f) /\ arg.f.search = Str("  ")
    /\ ~arg.f.hideBlankMajor
    /\ Len(arg.rows) = 2 /\ arg.rows[1]["Major"] = <<>> /\ res = arg.rows

\* C4 as stated: with all five multi-select sets empty and the search blank,
\* filtering returns exactly the input sequence, whatever hideBlankMajor is.
C4_AsStated ==
    pc = "return" /\ NoSelection(arg.f) /\ Trimmed(arg.f.search) = <<>>
        => res = arg.rows

Selection == {"colleges", "levels", "copcStatuses", "accreditations", "deans"}

\* g is f with one more constraint enabled and nothing else changed
AddsConstraint(f, g) ==
    \/ \E d \in Selection : f[d] = <<>> /\ g[d] # <<>> /\ g = [f EXCEPT ![d] = g[d]]
    \/ ~f.hideBlankMajor /\ g = [f EXCEPT !.hideBlankMajor = TRUE]
    \/ /\ Trimmed(f.search) = <<>> /\ Trimmed(g.search) # <<>>
       /\ g = [f EXCEPT !.search = g.search]

\* C5: enabling one more constraint gives a sub-sequence of the result, so the
\* result never grows.
C5_FilterMonotonic ==
    pc = "return" =>
        \A g \in FilterStates : AddsConstraint(arg.f, g) =>
            LET more == filteredRowsOf(arg.rows, g)
            IN  /\ Len(more) <= Len(res)
                /\ \E kept \in SUBSET (1..Len(res)) : IsSubsequenceBy(more, res, kept)

C5_Witness ==
    /\ pc = "return" /\ Len(res) = 2
    /\ \E g \in FilterStates :
          /\ AddsConstraint(arg.f, g) /\ g.levels # <<>>
          /\ Len(filteredRowsOf(arg.rows, g)) = 1

\* C9: a sheet with a data row fails with an error that lists every expected
\* column absent from the trimmed headers, and no other; it succeeds when all
\* twelve are there, in any order, whatever other columns there are.
C9_MissingColumns ==
    pc = "return" =>
        LET ws == arg.sheets[1]
            observed == {Trimmed(ws.headers[j]) : j \in 1..Len(ws.headers)}
            absent == {h \in ExpectedSet : Str(h) \notin observed}
            prefix == Str("Missing expected columns: ")
        IN  /\ absent = {} => res.ok /\ Len(res.rows) = Len(ws.rows)
            /\ absent # {} =>
                  /\ ~res.ok
                  /\ StartsWith(res.message, prefix)
                  /\ \A h \in ExpectedSet :
                        h \in absent <=>
                          Contains(Str(h), SubSeq(res.message, Len(prefix) + 1, Len(res.message)))

C9_Witness ==
    /\ pc = "return" /\ ~res.ok
    /\ Str("Dean") \notin Elements(arg.sheets[1].headers)
    /\ Str("Major") \notin Elements(arg.sheets[1].headers)
    /\ Contains(Str("Major, Dean"), res.message)

StatusOf(r) == r["COPC Status"]

\* C10: total is the number of records, issued and underApp the numbers whose
\* status is 'issued' and 'under application' whatever the case, phaseOut the
\* number whose status contains 'phase-out' whatever the case, colleges the
\* number of distinct non-empty College values; no record gives all zeros.
C10_Kpis ==
    pc = "return" =>
        LET n == 1..Len(arg)
        IN  /\ res.total = Len(arg)
            /\ res.issued =
                  Cardinality({i \in n : EqualIgnoringCase(StatusOf(arg[i]), Str("issued"))})
            /\ res.underApp =
                  Cardinality({i \in n : EqualIgnoringCase(StatusOf(arg[i]), Str("under application"))})
            /\ res.phaseOut =
                  Cardinality({i \in n : OccursIn(Str("phase-out"), StatusOf(arg[i]))})
            /\ res.colleges = Cardinality({arg[i]["College"] : i \in n} \ {<<>>})
            /\ arg = <<>> =>
                  res = [total |-> 0, issued |-> 0, underApp |-> 0, phaseOut |-> 0,
                         colleges |-> 0]

C10_Witness ==
    /\ pc = "return" /\ Len(arg) = 2
    /\ StatusOf(arg[1]) = Str("Voluntary Phase-Out") /\ StatusOf(arg[2]) = Str("Phased")
    /\ res.phaseOut = 1 /\ res.total = 2

\* C1: when an upload has failed there is no dataset, an error message that
\* is not empty, and nothing in the filtered view; an unreadable file, a
\* workbook without sheets and a sheet without an expected column all fail.
C1_FailedUpload ==
    /\ event.op = "failed" =>
          /\ loaded = NULL
          /\ error # NULL /\ error[1] # <<>>
          /\ rows = <<>> /\ filteredRows = <<>>
    /\ event.op = "loaded" =>
          event.file[1] \notin {FileUnreadable, FileNoSheets, FileNoDean}

C1_Witness ==
    /\ event.op = "failed" /\ event.hadData /\ event.file = Some(FileNoDean)
    /\ loaded = NULL /\ Contains(Str("Dean"), error[1])

\* C2: when an upload has succeeded the dataset is the new file's rows and
\* the filter state is the default, five empty selections, an empty search
\* and hideBlankMajor off, whatever both were before.
C2_LoadResetsFilters ==
    event.op = "loaded" =>
        /\ loaded # NULL
        /\ loaded[1].raw = parseXlsxFirstSheet(event.file[1]).rows
        /\ NoSelection(filters) /\ filters.search = <<>> /\ ~filters.hideBlankMajor

C2_Witness ==
    /\ event.op = "loaded" /\ event.hadData /\ event.hadFilters
    /\ event.file = Some(FileB) /\ loaded[1].raw[1]["College"] = Str("CBE")
    /\ filters = DEFAULT_FILTERS

\* C8: the target-campus subset is exactly the loaded records whose Campus is
\* 'bambang' whatever the case and the surrounding white space, in input
\* order, and the removed count is the number of the others.
C8_TargetCampus ==
    loaded # NULL =>
        LET d == loaded[1]
        IN  /\ IsSubsequenceBy(d.bambang, d.raw,
                  {i \in 1..Len(d.raw) :
                      EqualIgnoringCase(Trimmed(d.raw[i]["Campus"]), Str("bambang"))})
            /\ d.removedNonBambangCount = Len(d.raw) - Len(d.bambang)

C8_Witness ==
    /\ event.op = "loaded" /\ event.file = Some(FileA)
    /\ Len(loaded[1].raw) = 3 /\ loaded[1].removedNonBambangCount = 1
    /\ [i \in 1..2 |-> loaded[1].bambang[i]["Campus"]] = <<Str("BAMBANG"), Str("bambang")>>

\* the column of the sheet whose trimmed header is the expected name h
ColumnOf(ws, h) == CHOOSE j \in 1..Len(ws.headers) : Trimmed(ws.headers[j]) = Str(h)

\* C14: when header validation accepts a sheet, every field of every record
\* is normalizeCell of the cell in the column whose trimmed header is that
\* field's name, also when the header is accepted only after trimming.
C14_FieldsFromTrimmedHeaders ==
    pc = "return" /\ res.ok =>
        LET ws == arg.sheets[1]
        IN  \A i \in 1..Len(res.rows) : \A h \in ExpectedSet :
                res.rows[i][h] = normalizeCell(ws.rows[i][ColumnOf(ws, h)])

\* the distinct non-empty trimmed values of a column of the target-campus
\* rows of a dataset, loaded or not
ValuesIn(l, h) ==
    LET full == IF l = NULL THEN <<>> ELSE l[1].bambang
    IN  {Trimmed(Derive(full[i])[h]) : i \in 1..Len(full)} \ {<<>>}

\* list holds exactly the values of S, each once, in case-insensitive order
ListsExactly(list, S) ==
    /\ Elements(list) = S
    /\ Len(list) = Cardinality(S)
    /\ \A i, j \in 1..Len(list) : i < j => localeCompare(list[i], list[j]) <= 0

\* the five option lists are the distinct values of the full target-campus
\* record set
OptionsOfFullSet ==
    LET o == options
    IN  /\ ListsExactly(o.colleges, ValuesIn(loaded, "College"))
        /\ ListsExactly(o.levels, ValuesIn(loaded, "Level"))
        /\ ListsExactly(o.copcStatuses, ValuesIn(loaded, "COPC Status"))
        /\ ListsExactly(o.accreditations, ValuesIn(loaded, "AccreditationNormalized"))
        /\ ListsExactly(o.deans, ValuesIn(loaded, "Dean"))

\* the option lists of a dataset, before any filter is applied to it
OptionsOver(l) == optionsOf(rowsWithDerivedOf(IF l = NULL THEN <<>> ELSE l[1].bambang))

\* C12: the five option lists are always the distinct values of the full
\* target-campus record set, whatever the filters are, and a change of the
\* filter state (a selection, the search, hideBlankMajor, Reset) leaves every
\* option list as it was.
C12_OptionsFromFullSet ==
    /\ []OptionsOfFullSet
    /\ [][event'.op \in {"filter", "reset"} => OptionsOver(loaded') = options]_vars

C12_Witness ==
    /\ event.op = "filter" /\ filters.colleges = <<Str("CAS")>>
    /\ Len(filteredRows) = 1 /\ Len(rows) = 2
    /\ options.colleges = <<Str("CAS"), Str("CTE")>>

\* what an upload of the file leaves behind when nothing else interferes
OutcomeOf(file) ==
    LET out == parseXlsxFirstSheet(file)
    IN  IF out.ok THEN [loaded |-> Some(LoadedData(out.rows)), error |-> NULL]
        ELSE [loaded |-> NULL, error |-> Some(out.message)]

\* C13: once every read has settled, the dataset and the error message are
\* those of the most recently selected file, in whatever order the reads of
\* overlapping uploads settled.
C13_LatestUploadWins ==
    reads = <<>> /\ inputFile # NULL /\ event.op \in {"loaded", "failed"} =>
        /\ loaded = OutcomeOf(inputFile[1]).loaded
        /\ error = OutcomeOf(inputFile[1]).error

\* the elements of a set of numbers in increasing order
Ascending(S) ==
    [k \in 1..Cardinality(S) |-> CHOOSE x \in S : Cardinality({y \in S : y < x}) = k - 1]

\* the stretches lo..hi of positions that the cuts leave between them
Stretches(lo, hi, cuts) ==
    LET c == Ascending(cuts)
    IN  [k \in 1..Len(c) + 1 |->
            [lo |-> IF k = 1 THEN lo ELSE c[k - 1] + 1,
             hi |-> IF k = Len(c) + 1 THEN hi ELSE c[k] - 1]]

\* a doubled double quote stands for one
RECURSIVE Undoubled(_)
Undoubled(s) ==
    IF s = <<>> THEN <<>>
    ELSE IF Len(s) >= 2 /\ s[1] = "\"" /\ s[2] = "\""
         THEN <<"\"">> \o Undoubled(SubSeq(s, 3, Len(s)))
         ELSE <<s[1]>> \o Undoubled(Tail(s))

\* A standard CSV reader: fields are separated by commas, records by line
\* breaks; a field that opens with a double quote runs to its closing double
\* quote, a doubled double quote inside it standing for one, and commas and
\* line breaks between the two are data. LF and CRLF break a line; readers
\* differ on a carriage return that stands alone outside quotes, which
\* crBreaks decides.
ParseCsv(text, crBreaks) ==
    LET n == Len(text)
        outside(i) == Cardinality({j \in 1..i : text[j] = "\""}) % 2 = 0
        beforeLF(i) == i < n /\ text[i + 1] = "\n"
        breakEnds ==
            {i \in 1..n : /\ \/ text[i] = "\n"
                             \/ text[i] = "\r" /\ crBreaks /\ ~beforeLF(i)
                          /\ outside(i)}
        commas == {i \in 1..n : text[i] = "," /\ outside(i)}
        value(lo, hi) ==
            LET raw == SubSeq(text, lo, hi)
            IN  IF Len(raw) >= 2 /\ raw[1] = "\"" /\ raw[Len(raw)] = "\""
                THEN Undoubled(SubSeq(raw, 2, Len(raw) - 1))
                ELSE raw
        record(lo, hi) ==
            LET last == IF hi >= lo /\ text[hi] = "\r" /\ outside(hi) /\ beforeLF(hi)
                        THEN hi - 1 ELSE hi
                fields == Stretches(lo, last, {i \in commas : lo <= i /\ i <= last})
            IN  [k \in 1..Len(fields) |-> value(fields[k].lo, fields[k].hi)]
        all == Stretches(1, n, breakEnds)
        \* a line break at the very end of the text opens no further record
        kept == IF n = 0 \/ n \in breakEnds THEN SubSeq(all, 1, Len(all) - 1) ELSE all
    IN  [k \in 1..Len(kept) |-> record(kept[k].lo, kept[k].hi)]

\* the thirteen column names, then the thirteen values of each record
TableOf(frows) ==
    << [k \in 1..13 |-> Str((EXPECTED_HEADERS \o <<"AccreditationNormalized">>)[k])] >>
    \o [i \in 1..Len(frows) |->
            [k \in 1..13 |-> frows[i][(EXPECTED_HEADERS \o <<"AccreditationNormalized">>)[k]]]]

\* C11: for every filtered record sequence, reading the exported text with a
\* standard CSV reader gives the thirteen-column header followed by one row
\* per record, in order, whose values are the record's twelve fields and
\* AccreditationNormalized exactly, also for fields that contain commas,
\* double quotes or line breaks.
C11_CsvRoundTrip ==
    pc = "return" =>
        \A crBreaks \in BOOLEAN : ParseCsv(res, crBreaks) = TableOf(arg)


====
